---- MODULE Spec2Model ----
(***************************************************************************)
(* Model of the Todoist import command of src/main.ts: Commander creates   *)
(* one ImportAllTasksCommand per invocation; the command fetches the       *)
(* projects, then the tasks, then the comments of every task concurrently, *)
(* renders every task to markdown and inserts the text at the cursor.      *)
(* Text is modelled by TLA+ strings (Len, SubSeq and \o act on them).      *)
(***************************************************************************)
EXTENDS Integers, Sequences, FiniteSets, TLC

\* Largest number of tasks in one tasks response.
MaxTasks == 2

\* Number of invocations of the command in the overlapping-imports model.
MaxImports == 2

Imports == 1..MaxImports

(***************************************************************************)
(* Strings                                                                 *)
(***************************************************************************)

\* Array.prototype.join
RECURSIVE JoinStr(_, _)
JoinStr(strs, sep) ==
  IF strs = <<>> THEN ""
  ELSE IF Len(strs) = 1 THEN strs[1]
  ELSE strs[1] \o sep \o JoinStr(Tail(strs), sep)

\* Index of the first occurrence of the one-character string c in s, 0 if none.
FirstIndexOf(s, c) ==
  IF \E k \in 1..Len(s) : SubSeq(s, k, k) = c
  THEN CHOOSE k \in 1..Len(s) :
         /\ SubSeq(s, k, k) = c
         /\ \A j \in 1..(k - 1) : SubSeq(s, j, j) # c
  ELSE 0

\* A variant of the replacement that substitutes every occurrence.
RECURSIVE ReplaceEvery(_, _, _)
ReplaceEvery(s, c, r) ==
  IF s = "" THEN ""
  ELSE (IF SubSeq(s, 1, 1) = c THEN r ELSE SubSeq(s, 1, 1))
         \o ReplaceEvery(SubSeq(s, 2, Len(s)), c, r)

\* String.prototype.replace with a string pattern: only the first occurrence.
StrReplace(s, c, r) ==
  LET k == FirstIndexOf(s, c)
  IN  IF k = 0 THEN s
      ELSE SubSeq(s, 1, k - 1) \o r \o SubSeq(s, k + 1, Len(s))

\* TRUE iff sub occurs in s as a contiguous substring.
Contains(s, sub) ==
  \E k \in 1..(Len(s) - Len(sub) + 1) : SubSeq(s, k, k + Len(sub) - 1) = sub

(***************************************************************************)
(* moment(x).format("YYYY-MM-DD"): an ISO-8601 UTC timestamp is parsed to  *)
(* an instant and formatted in the local time zone of the host.            *)
(***************************************************************************)

DigitChars == "0123456789"

DigitChar(d) == SubSeq(DigitChars, d + 1, d + 1)

IsDigit(c) == \E d \in 0..9 : DigitChar(d) = c

DigitVal(c) == CHOOSE d \in 0..9 : DigitChar(d) = c

AllDigits(s) == \A k \in 1..Len(s) : IsDigit(SubSeq(s, k, k))

RECURSIVE ParseNat(_)
ParseNat(s) ==
  IF s = "" THEN 0
  ELSE 10 * ParseNat(SubSeq(s, 1, Len(s) - 1)) + DigitVal(SubSeq(s, Len(s), Len(s)))

Pad2(n) == DigitChar(n \div 10) \o DigitChar(n % 10)

Pad4(n) == DigitChar(n \div 1000) \o DigitChar((n \div 100) % 10)
             \o DigitChar((n \div 10) % 10) \o DigitChar(n % 10)

IsLeap(y) == (y % 4 = 0 /\ y % 100 # 0) \/ y % 400 = 0

DaysInMonth(y, m) ==
  IF m = 2 THEN (IF IsLeap(y) THEN 29 ELSE 28)
  ELSE IF m \in {4, 6, 9, 11} THEN 30 ELSE 31

\* "YYYY-MM-DDTHH:MM:SS[.fraction]Z", the timestamp shape of the service.
IsIsoUtc(s) ==
  /\ Len(s) >= 20
  /\ AllDigits(SubSeq(s, 1, 4)) /\ SubSeq(s, 5, 5) = "-"
  /\ AllDigits(SubSeq(s, 6, 7)) /\ SubSeq(s, 8, 8) = "-"
  /\ AllDigits(SubSeq(s, 9, 10)) /\ SubSeq(s, 11, 11) = "T"
  /\ AllDigits(SubSeq(s, 12, 13)) /\ SubSeq(s, 14, 14) = ":"
  /\ AllDigits(SubSeq(s, 15, 16)) /\ SubSeq(s, 17, 17) = ":"
  /\ AllDigits(SubSeq(s, 18, 19))
  /\ SubSeq(s, Len(s), Len(s)) = "Z"
  /\ Len(s) > 20 => /\ SubSeq(s, 20, 20) = "."
                    /\ AllDigits(SubSeq(s, 21, Len(s) - 1))
  /\ ParseNat(SubSeq(s, 6, 7)) \in 1..12
  /\ ParseNat(SubSeq(s, 9, 10)) \in
       1..DaysInMonth(ParseNat(SubSeq(s, 1, 4)), ParseNat(SubSeq(s, 6, 7)))
  /\ ParseNat(SubSeq(s, 12, 13)) \in 0..23
  /\ ParseNat(SubSeq(s, 15, 16)) \in 0..59

\* The instant of a timestamp: calendar date and minute of the day, in UTC.
ParseIso(s) ==
  [y |-> ParseNat(SubSeq(s, 1, 4)), m |-> ParseNat(SubSeq(s, 6, 7)),
   d |-> ParseNat(SubSeq(s, 9, 10)),
   min |-> 60 * ParseNat(SubSeq(s, 12, 13)) + ParseNat(SubSeq(s, 15, 16))]

NextDay(t) ==
  IF t.d < DaysInMonth(t.y, t.m) THEN [t EXCEPT !.d = t.d + 1]
  ELSE IF t.m < 12 THEN [t EXCEPT !.d = 1, !.m = t.m + 1]
  ELSE [t EXCEPT !.d = 1, !.m = 1, !.y = t.y + 1]

PrevDay(t) ==
  IF t.d > 1 THEN [t EXCEPT !.d = t.d - 1]
  ELSE IF t.m > 1 THEN [t EXCEPT !.d = DaysInMonth(t.y, t.m - 1), !.m = t.m - 1]
  ELSE [t EXCEPT !.d = 31, !.m = 12, !.y = t.y - 1]

\* The instant t seen in a zone tz minutes east of UTC (|tz| < 1440).
ToLocal(t, tz) ==
  LET mm == t.min + tz
  IN  IF mm < 0 THEN [PrevDay(t) EXCEPT !.min = mm + 1440]
      ELSE IF mm >= 1440 THEN [NextDay(t) EXCEPT !.min = mm - 1440]
      ELSE [t EXCEPT !.min = mm]

FormatYMD(t) == Pad4(t.y) \o "-" \o Pad2(t.m) \o "-" \o Pad2(t.d)

\* moment(s).format("YYYY-MM-DD") on a host whose zone is tz minutes east.
MomentFormat(s, tz) ==
  IF IsIsoUtc(s) THEN FormatYMD(ToLocal(ParseIso(s), tz)) ELSE "Invalid date"

(***************************************************************************)
(* Data of the service: projects, tasks and comments as the REST API       *)
(* returns them.  An optional JSON value is a sequence of length 0 or 1.   *)
(***************************************************************************)

P1 == [id |-> "p1", name |-> "Work Stuff"]
P2 == [id |-> "p2", name |-> "Inbox"]
P3 == [id |-> "p3", name |-> "My Home Lab"]
P1b == [id |-> "p1", name |-> "Side Gig"]

\* The projects responses the service may give.
ProjectsResponses == {<<P1>>, <<P2, P1, P3>>, <<P1, P1b>>}

Note1 == [id |-> "c1", content |-> "See mail"]
Note2 == [id |-> "c2", content |-> "Call back"]

\* The comments responses the service may give for one task.
CommentsResponses == {<<>>, <<Note1, Note2>>}

\* A task as parsed from the tasks response: no comments field yet.
T1 == [id |-> "t1", content |-> "Write report", description |-> "",
       is_completed |-> FALSE, created_at |-> "2024-01-05T10:00:00Z",
       due |-> <<>>, priority |-> 3, labels |-> <<"urgent">>,
       project_id |-> "p1", hasComments |-> FALSE, comments |-> <<>>]

T2 == [id |-> "t2", content |-> "Buy milk", description |-> "2 liters",
       is_completed |-> TRUE, created_at |-> "2023-12-31T23:30:00.000000Z",
       due |-> <<[datetime |-> <<"2024-02-29T18:00:00Z">>]>>,
       priority |-> 1, labels |-> <<"home", "errand">>,
       project_id |-> "p2", hasComments |-> FALSE, comments |-> <<>>]

\* due carries a date only: the datetime field is absent.
T3 == [id |-> "t3", content |-> "Fix rack", description |-> "",
       is_completed |-> FALSE, created_at |-> "2024-03-01T00:15:00Z",
       due |-> <<[datetime |-> <<>>]>>, priority |-> 4, labels |-> <<>>,
       project_id |-> "p3", hasComments |-> FALSE, comments |-> <<>>]

\* project_id is the name of a member every JavaScript object inherits.
T4 == [id |-> "t4", content |-> "Odd", description |-> "",
       is_completed |-> FALSE, created_at |-> "2024-01-05T10:00:00Z",
       due |-> <<>>, priority |-> 2, labels |-> <<>>,
       project_id |-> "constructor", hasComments |-> FALSE, comments |-> <<>>]

TaskPool == {T1, T2, T3, T4}

\* The tasks responses the service may give.
TasksResponses == UNION {[1..n -> TaskPool] : n \in 0..MaxTasks}

\* Local zones of the host, in minutes east of UTC.
TzOffsets == {-601, -600, 839, 840}

\* Instants (UTC) at which the rendering may run.
NowSet == {[y |-> 2026, m |-> 11, d |-> 1, min |-> 30],
           [y |-> 2026, m |-> 12, d |-> 31, min |-> 1400]}

(***************************************************************************)
(* ImportAllTasksCommand.transformToMarkdown                               *)
(***************************************************************************)

\* Members that `{}` inherits from Object.prototype, with their `name`.
ObjectPrototypeNames ==
  [k \in {"constructor", "toString", "valueOf", "hasOwnProperty",
          "isPrototypeOf", "propertyIsEnumerable", "toLocaleString"} |->
     IF k = "constructor" THEN "Object" ELSE k]

\* this.projects[pid].name: the name, or <<>> when the dereference throws.
ProjectName(lookup, pid) ==
  IF pid \in DOMAIN lookup THEN <<lookup[pid].name>>
  ELSE IF pid \in DOMAIN ObjectPrototypeNames THEN <<ObjectPrototypeNames[pid]>>
  ELSE <<>>

PriorityLabels == <<"none", "low", "medium", "high", "highest">>

\* A variant of the mapping that takes priority 1 for the first label.
PriorityLabelFromOne(p) ==
  IF p \in 1..Len(PriorityLabels) THEN PriorityLabels[p] ELSE "undefined"

\* ["none","low","medium","high","highest"][priority], a zero-based index.
PriorityLabel(p) ==
  IF p \in 0..(Len(PriorityLabels) - 1) THEN PriorityLabels[p + 1] ELSE "undefined"

\* moment(task.due.datetime): moment(undefined) is the current instant.
DueDate(due, tz, now) ==
  IF due.datetime = <<>> THEN FormatYMD(ToLocal(now, tz))
  ELSE MomentFormat(due.datetime[1], tz)

\* The rendering throws: task.comments is undefined, or the project is.
RenderThrows(task, lookup) ==
  \/ ~task.hasComments
  \/ ProjectName(lookup, task.project_id) = <<>>

\* The block of one task (defined when the rendering does not throw).
transformToMarkdown(task, lookup, tz, now) ==
  LET tags == JoinStr([k \in 1..Len(task.labels) |-> "#" \o task.labels[k]], " ")
      created == "[created:: " \o MomentFormat(task.created_at, tz) \o "]"
      status == IF task.is_completed THEN "x" ELSE " "
      description == IF task.description # ""
                     THEN "\n" \o task.description \o "\n" ELSE ""
      comments == JoinStr([k \in 1..Len(task.comments) |-> task.comments[k].content],
                          "\n\n")
      due == IF task.due # <<>>
             THEN "[due:: " \o DueDate(task.due[1], tz, now) \o "]" ELSE ""
      id == "[id:: " \o task.id \o "]"
      priority == "[priority:: " \o PriorityLabel(task.priority) \o "]"
      project == "#project-"
                   \o StrReplace(ProjectName(lookup, task.project_id)[1], " ", "-")
  IN  "- [" \o status \o "] " \o task.content \o " " \o tags \o " " \o project
        \o " " \o created \o " " \o priority \o " " \o id \o " " \o due \o " "
        \o description \o "\n" \o comments \o "\n"

\* The loop of loadProjects: this.projects[project.id] = project, in order.
RECURSIVE loadProjectsThen(_, _)
loadProjectsThen(lookup, ps) ==
  IF ps = <<>> THEN lookup
  ELSE loadProjectsThen((ps[1].id :> ps[1]) @@ lookup, Tail(ps))

\* The callback of withComments: task.comments = comments; return task.
withCommentsThen(task, comments) ==
  [task EXCEPT !.hasComments = TRUE, !.comments = comments]

(***************************************************************************)
(* State.  Import i is the i-th invocation of the "Import all tasks"       *)
(* command.                                                                *)
(***************************************************************************)

VARIABLES
  pc,        \* pc[i]: "idle", "projects", "tasks", "comments", "done", "failed"
  projects,  \* projects[c]: the lookup `projects` of command instance c
  tasks,     \* tasks[i]: the task objects parsed from the tasks response
  requests,  \* requests[i][k]: state of the promise withComments(tasks[k])
  net,       \* net[i]: what the service answered to import i so far
  host,      \* host[i]: the zone of the host while import i rendered
  log,       \* log[i]: requests, responses, renderings and editor calls
             \* of import i, in order
  doc        \* the texts the editor was asked to insert, in order

vars == <<pc, projects, tasks, requests, net, host, log, doc>>

Ev(e, k, t) == [ev |-> e, k |-> k, text |-> t]

NoAnswers == [projects |-> <<>>, tasks |-> <<>>,
              comments |-> <<>>, failed |-> {}]

Init ==
  /\ pc = [i \in Imports |-> "idle"]
  /\ projects = [c \in Imports |-> <<>>]
  /\ tasks = [i \in Imports |-> <<>>]
  /\ requests = [i \in Imports |-> <<>>]
  /\ net = [i \in Imports |-> NoAnswers]
  /\ host = [i \in Imports |-> <<>>]
  /\ log = [i \in Imports |-> <<>>]
  /\ doc = <<>>

\* A variant in which the Commander keeps one command for all invocations.
SharedCommand(i) == 1

\* Commander.importAllTasks: every invocation constructs its own command.
CommandOf(i) == i

\* A variant of the fan-out that starts the first request only.
FirstRequestOnly(ts) == IF ts = <<>> THEN {} ELSE {1}

\* tasks.map(withComments): the tasks whose comments request is issued
\* before the handler of the tasks response returns.
CommentRequestsIssued(ts) == 1..Len(ts)

\* A variant of the join that is fulfilled by the first fulfilled promise.
PromiseRace(rq) ==
  IF \E k \in DOMAIN rq : rq[k] = "rejected" THEN "rejected"
  ELSE IF rq = <<>> \/ \E k \in DOMAIN rq : rq[k] = "resolved" THEN "fulfilled"
  ELSE "pending"

\* Promise.all: rejected by the first rejection, fulfilled when all are.
PromiseAll(rq) ==
  IF \E k \in DOMAIN rq : rq[k] = "rejected" THEN "rejected"
  ELSE IF \A k \in DOMAIN rq : rq[k] = "resolved" THEN "fulfilled"
  ELSE "pending"

\* A variant of the join whose values are in order of completion.
ValuesByArrival(ts, arrivals) == [k \in 1..Len(arrivals) |-> ts[arrivals[k]]]

\* The value of Promise.all: the values of the promises, by position.
PromiseAllValues(ts, arrivals) == ts

\* A variant of the failure path that swallows the error.
SwallowCommentsError(task) ==
  [state |-> "resolved", task |-> withCommentsThen(task, <<>>)]

\* A failed comments request rejects the promise of withComments; the
\* callback that attaches the comments does not run.
OnCommentsError(task) == [state |-> "rejected", task |-> task]

\* The task indices in the order their comments responses were handled.
Arrivals(lg) ==
  LET IsArrival(e) == e.ev = "commentsRes"
      handled == SelectSeq(lg, IsArrival)
  IN  [a \in 1..Len(handled) |-> handled[a].k]

\* A variant that reads the cursor before the tasks are rendered.
CursorFirstEvents(renders, text) ==
  <<Ev("getCursor", 0, "")>> \o renders \o <<Ev("replaceRange", 0, text)>>

\* The callback of execute: every task is rendered, the blocks are joined,
\* then the cursor is read and replaceRange is called.
ExecuteEvents(renders, text) ==
  renders \o <<Ev("getCursor", 0, ""), Ev("replaceRange", 0, text)>>

\* The callback of execute on the enriched tasks ts.
ExecuteThen(ts, lookup, tz, now) ==
  LET Throws(k) == RenderThrows(ts[k], lookup)
      n == IF \E k \in 1..Len(ts) : Throws(k)
           THEN (CHOOSE k \in 1..Len(ts) :
                   Throws(k) /\ \A j \in 1..(k - 1) : ~Throws(j)) - 1
           ELSE Len(ts)
      blocks == [k \in 1..n |-> transformToMarkdown(ts[k], lookup, tz, now)]
      renders == [k \in 1..n |-> Ev("render", k, blocks[k])]
      text == JoinStr(blocks, "\n---\n")
  IN  IF n = Len(ts)
      THEN [ok |-> TRUE, text |-> text, events |-> ExecuteEvents(renders, text)]
      ELSE [ok |-> FALSE, text |-> "", events |-> renders]

\* What follows, in the same turn, a change of the comment promises of
\* import i (phase ph): the join settles and the callback of execute runs.
Settle(i, ph, ts, rq, lg, zones) ==
  IF ph = "comments" /\ PromiseAll(rq) = "fulfilled"
  THEN \E tz \in zones, now \in NowSet :
         \E r \in {ExecuteThen(PromiseAllValues(ts, Arrivals(lg)),
                              projects[CommandOf(i)], tz, now)} :
             /\ pc' = [pc EXCEPT ![i] = IF r.ok THEN "done" ELSE "failed"]
             /\ host' = [host EXCEPT ![i] = <<tz>>]
             /\ log' = [log EXCEPT ![i] = lg \o r.events]
             /\ doc' = IF r.ok THEN Append(doc, r.text) ELSE doc
  ELSE /\ pc' = [pc EXCEPT ![i] =
                   IF ph = "comments" /\ PromiseAll(rq) = "rejected"
                   THEN "failed" ELSE ph]
       /\ log' = [log EXCEPT ![i] = lg]
       /\ UNCHANGED <<host, doc>>

(***************************************************************************)
(* Actions                                                                 *)
(***************************************************************************)

\* The host invokes the command: Commander.importAllTasks constructs a
\* command, execute -> loadData -> loadProjects issues the projects request.
importAllTasks(i) ==
  /\ pc[i] = "idle"
  /\ i > 1 => pc[i - 1] # "idle"
  /\ pc' = [pc EXCEPT ![i] = "projects"]
  /\ projects' = [projects EXCEPT ![CommandOf(i)] = <<>>]
  /\ log' = [log EXCEPT ![i] = <<Ev("projectsReq", 0, "")>>]
  /\ UNCHANGED <<tasks, requests, net, host, doc>>

\* The projects response arrives: the lookup is filled, then allTasks
\* issues the tasks request.
ProjectsResponse(i, ps) ==
  /\ pc[i] = "projects"
  /\ pc' = [pc EXCEPT ![i] = "tasks"]
  /\ projects' = [projects EXCEPT ![CommandOf(i)] = loadProjectsThen(@, ps)]
  /\ net' = [net EXCEPT ![i].projects = <<ps>>]
  /\ log' = [log EXCEPT ![i] =
                @ \o <<Ev("projectsRes", 0, ""), Ev("tasksReq", 0, "")>>]
  /\ UNCHANGED <<tasks, requests, host, doc>>

\* The projects request fails: the rejection runs up to the caller.
ProjectsFailure(i) ==
  /\ pc[i] = "projects"
  /\ pc' = [pc EXCEPT ![i] = "failed"]
  /\ net' = [net EXCEPT ![i].failed = @ \cup {"projects"}]
  /\ log' = [log EXCEPT ![i] = Append(@, Ev("projectsErr", 0, ""))]
  /\ UNCHANGED <<projects, tasks, requests, host, doc>>

\* The tasks response arrives: one comments request per task is issued and
\* the promises are joined; with no task the join is fulfilled at once.
TasksResponse(i, ts, zones) ==
  /\ pc[i] = "tasks"
  /\ LET issued == CommentRequestsIssued(ts)
         rq == [k \in 1..Len(ts) |-> IF k \in issued THEN "pending" ELSE "unissued"]
         IsIssued(e) == e.k \in issued
         reqs == SelectSeq([k \in 1..Len(ts) |-> Ev("commentsReq", k, ts[k].id)],
                           IsIssued)
     IN  /\ tasks' = [tasks EXCEPT ![i] = ts]
         /\ requests' = [requests EXCEPT ![i] = rq]
         /\ net' = [net EXCEPT ![i].tasks = <<ts>>,
                               ![i].comments = [k \in 1..Len(ts) |-> <<>>]]
         /\ Settle(i, "comments", ts, rq,
                   log[i] \o <<Ev("tasksRes", 0, "")>> \o reqs, zones)
  /\ UNCHANGED projects

\* The tasks request fails.
TasksFailure(i) ==
  /\ pc[i] = "tasks"
  /\ pc' = [pc EXCEPT ![i] = "failed"]
  /\ net' = [net EXCEPT ![i].failed = @ \cup {"tasks"}]
  /\ log' = [log EXCEPT ![i] = Append(@, Ev("tasksErr", 0, ""))]
  /\ UNCHANGED <<projects, tasks, requests, host, doc>>

\* The comments response of task k arrives (also after the join was
\* rejected): the comments are attached to the task.
CommentsResponse(i, k, cs, zones) ==
  /\ k \in DOMAIN requests[i]
  /\ requests[i][k] = "pending"
  /\ LET ts == [tasks[i] EXCEPT ![k] = withCommentsThen(@, cs)]
         rq == [requests[i] EXCEPT ![k] = "resolved"]
     IN  /\ tasks' = [tasks EXCEPT ![i] = ts]
         /\ requests' = [requests EXCEPT ![i] = rq]
         /\ net' = [net EXCEPT ![i].comments[k] = <<cs>>]
         /\ Settle(i, pc[i], ts, rq,
                   Append(log[i], Ev("commentsRes", k, tasks[i][k].id)), zones)
  /\ UNCHANGED projects

\* The comments request of task k fails.
CommentsFailure(i, k, zones) ==
  /\ k \in DOMAIN requests[i]
  /\ requests[i][k] = "pending"
  /\ LET r == OnCommentsError(tasks[i][k])
         ts == [tasks[i] EXCEPT ![k] = r.task]
         rq == [requests[i] EXCEPT ![k] = r.state]
     IN  /\ tasks' = [tasks EXCEPT ![i] = ts]
         /\ requests' = [requests EXCEPT ![i] = rq]
         /\ net' = [net EXCEPT ![i].failed = @ \cup {"comments"}]
         /\ Settle(i, pc[i], ts, rq,
                   Append(log[i], Ev("commentsErr", k, tasks[i][k].id)), zones)
  /\ UNCHANGED projects

(***************************************************************************)
(* Specifications                                                          *)
(***************************************************************************)

\* One import, every answer of the service.
Next ==
  \/ importAllTasks(1)
  \/ \E ps \in ProjectsResponses : ProjectsResponse(1, ps)
  \/ ProjectsFailure(1)
  \/ \E ts \in TasksResponses : TasksResponse(1, ts, TzOffsets)
  \/ TasksFailure(1)
  \/ \E k \in 1..MaxTasks, cs \in CommentsResponses :
       CommentsResponse(1, k, cs, TzOffsets)
  \/ \E k \in 1..MaxTasks : CommentsFailure(1, k, TzOffsets)

Spec == Init /\ [][Next]_vars

\* The answers of the service in the model of overlapping imports.
OverlapProjects == {<<P1>>, <<P1, P1b>>}
OverlapTasks == {<<>>, <<T1>>}
OverlapComments == {<<>>}
OverlapZones == {0}

\* Up to MaxImports invocations, each one possible while others wait.
NextOverlap ==
  \E i \in Imports :
    \/ importAllTasks(i)
    \/ \E ps \in OverlapProjects : ProjectsResponse(i, ps)
    \/ ProjectsFailure(i)
    \/ \E ts \in OverlapTasks : TasksResponse(i, ts, OverlapZones)
    \/ TasksFailure(i)
    \/ \E k \in 1..MaxTasks, cs \in OverlapComments :
         CommentsResponse(i, k, cs, OverlapZones)
    \/ \E k \in 1..MaxTasks : CommentsFailure(i, k, OverlapZones)

SpecOverlap == Init /\ [][NextOverlap]_vars

(***************************************************************************)
(* Properties                                                              *)
(***************************************************************************)

\* The positions of the events e in the log of import i.
Positions(i, e) == {a \in 1..Len(log[i]) : log[i][a].ev = e}

Count(i, e) == Cardinality(Positions(i, e))

\* The tasks response of import i (once received).
Received(i) == net[i].tasks[1]

\* The text import i passed to replaceRange (once it did).
InsertedText(i) == log[i][CHOOSE a \in Positions(i, "replaceRange") : TRUE].text

\* C1: an import is all-or-nothing.  If the projects fetch, the tasks fetch
\* or any comments fetch of an import failed, replaceRange is never called by
\* it and the document stays as it was; replaceRange is called only when
\* every fetch succeeded and every task was rendered, and the document
\* changes only through these calls.
C1_AllOrNothing ==
  /\ \A i \in Imports :
       /\ net[i].failed # {} => Positions(i, "replaceRange") = {} /\ pc[i] # "done"
       /\ Positions(i, "replaceRange") # {} =>
            /\ net[i].failed = {}
            /\ net[i].projects # <<>> /\ net[i].tasks # <<>>
            /\ \A k \in 1..Len(Received(i)) : net[i].comments[k] # <<>>
            /\ Count(i, "render") = Len(Received(i))
  /\ Len(doc) = Cardinality({i \in Imports : Positions(i, "replaceRange") # {}})

\* C1 witness: a comments fetch failed, another comments response arrived
\* after the failure, and nothing was inserted.
C1_Witness ==
  /\ pc[1] = "failed" /\ "comments" \in net[1].failed
  /\ \E a, b \in 1..Len(log[1]) :
       a < b /\ log[1][a].ev = "commentsErr" /\ log[1][b].ev = "commentsRes"
  /\ doc = <<>>

\* C2: if a task of the tasks response has a project_id that is not a key of
\* the lookup built by loadProjects, the import fails and replaceRange is
\* never called.
C2_MissingProjectFails ==
  \A i \in Imports :
    (/\ net[i].tasks # <<>>
     /\ Positions(i, "tasksReq") # {}
     /\ \E k \in 1..Len(Received(i)) :
          Received(i)[k].project_id \notin DOMAIN projects[CommandOf(i)])
    => Positions(i, "replaceRange") = {} /\ pc[i] # "done"

\* The lookup of import i holds, for every id of the projects response, the
\* last project of the response with that id, and nothing else.
LookupFilled(i) ==
  /\ net[i].projects # <<>>
  /\ LET ps == net[i].projects[1]
         lk == projects[CommandOf(i)]
     IN  /\ DOMAIN lk = {ps[j].id : j \in 1..Len(ps)}
         /\ \A j \in 1..Len(ps) :
              (\A h \in (j + 1)..Len(ps) : ps[h].id # ps[j].id) => lk[ps[j].id] = ps[j]

\* C3: the requests of an import form a chain.  The tasks request is issued
\* after the projects response arrived and the lookup was filled; every
\* comments request is issued after the tasks response arrived; rendering
\* and the editor calls happen after the comments response of every task
\* arrived.
C3_DependencyChain ==
  \A i \in Imports : \A a \in 1..Len(log[i]) :
    /\ log[i][a].ev = "tasksReq" =>
         /\ \E b \in 1..(a - 1) : log[i][b].ev = "projectsRes"
         /\ LookupFilled(i)
    /\ log[i][a].ev = "commentsReq" =>
         \E b \in 1..(a - 1) : log[i][b].ev = "tasksRes"
    /\ log[i][a].ev \in {"render", "getCursor", "replaceRange"} =>
         /\ net[i].tasks # <<>>
         /\ \A k \in 1..Len(Received(i)) :
              \E b \in 1..(a - 1) : log[i][b].ev = "commentsRes" /\ log[i][b].k = k

\* C3 witness: an import of two or more tasks went through the whole chain.
C3_Witness == pc[1] = "done" /\ Len(tasks[1]) >= 2 /\ Len(doc) = 1

\* C4: for a tasks response of N tasks exactly N comments requests are
\* issued, one per task and keyed by the id of that task, and all of them are
\* issued before the first comments response or failure is handled.
C4_AllIssuedFirst ==
  \A i \in Imports :
    /\ Positions(i, "tasksRes") # {} => Count(i, "commentsReq") = Len(Received(i))
    /\ \A a \in Positions(i, "commentsRes") \cup Positions(i, "commentsErr") :
         \A k \in 1..Len(Received(i)) :
           Cardinality({b \in 1..(a - 1) :
              log[i][b] = Ev("commentsReq", k, Received(i)[k].id)}) = 1

\* C4 witness: one comments request has completed while another one of the
\* same import is still outstanding.
C4_Witness ==
  \E k, j \in DOMAIN requests[1] :
    requests[1][k] = "resolved" /\ requests[1][j] = "pending"

\* C5: an import calls getCursor and replaceRange at most once each; an import
\* that completes has called each exactly once, getCursor before
\* replaceRange, and both after the rendering of every task.
C5_EditorCallsOnce ==
  \A i \in Imports :
    /\ Count(i, "getCursor") <= 1 /\ Count(i, "replaceRange") <= 1
    /\ pc[i] = "done" => Count(i, "getCursor") = 1 /\ Count(i, "replaceRange") = 1
    /\ \A a \in Positions(i, "getCursor") \cup Positions(i, "replaceRange") :
         /\ \A k \in 1..Len(Received(i)) :
              \E b \in 1..(a - 1) : log[i][b].ev = "render" /\ log[i][b].k = k
         /\ \A b \in Positions(i, "render") : b < a
    /\ \A a \in Positions(i, "getCursor"), b \in Positions(i, "replaceRange") : a < b

\* C5 witness: a completed import that rendered tasks and ended with the
\* call of replaceRange.
C5_Witness ==
  /\ pc[1] = "done" /\ Count(1, "render") >= 1
  /\ log[1][Len(log[1])].ev = "replaceRange"

\* The run of the end-to-end scenario: the project "Work Stuff", the single
\* task t1 and no comments.
ExampleRun(i) ==
  /\ pc[i] = "done"
  /\ net[i].projects = <<<<P1>>>>
  /\ net[i].tasks = <<<<T1>>>>
  /\ net[i].comments[1] = << <<>> >>

\* The block transformToMarkdown returned for task k of import i.
Block(i, k) ==
  log[i][CHOOSE a \in Positions(i, "render") : log[i][a].k = k].text

\* C6 (as claimed): in the scenario the block is the line below with exactly
\* one space between `[id:: t1]` and the first newline.
C6_OneSpace ==
  \A i \in Imports :
    ExampleRun(i) =>
      Block(i, 1) = "- [ ] Write report #urgent #project-Work-Stuff [created:: 2024-01-05] [priority:: high] [id:: t1] \n\n"

\* C6 (amended): in the scenario, on a host whose zone is between UTC-10:00
\* and UTC+13:59, the block has the fields in the order title, labels,
\* project tag, created, priority, id, and exactly two spaces between
\* `[id:: t1]` and the first of the two newlines.  The created date is the
\* local date: 2024-01-04 further west, 2024-01-06 at UTC+14:00.
C6_TwoSpaces ==
  \A i \in Imports :
    ExampleRun(i) =>
      Block(i, 1) = "- [ ] Write report #urgent #project-Work-Stuff [created:: "
                      \o (IF host[i][1] < -600 THEN "2024-01-04"
                          ELSE IF host[i][1] < 840 THEN "2024-01-05"
                          ELSE "2024-01-06")
                      \o "] [priority:: high] [id:: t1]  \n\n"

\* C6 witness: the scenario ran on a host in the zone range of the claim.
C6_Witness == ExampleRun(1) /\ host[1][1] \in -600..839

\* The block carries, between a space and the created field, the tag
\* `#project-` followed by the name with its first space, and only that
\* one, turned into a hyphen.
HasProjectTag(block, name) ==
  \E o \in 1..(Len(block) - Len(name) - 20) :
    /\ SubSeq(block, o, o + 9) = " #project-"
    /\ \A j \in 1..Len(name) :
         SubSeq(block, o + 9 + j, o + 9 + j) =
           IF /\ SubSeq(name, j, j) = " "
              /\ \A h \in 1..(j - 1) : SubSeq(name, h, h) # " "
           THEN "-" ELSE SubSeq(name, j, j)
    /\ SubSeq(block, o + 10 + Len(name), o + 20 + Len(name)) = " [created::"

\* C7: the block of every task whose project_id is a key of the lookup
\* contains the tag `#project-` followed by the name of the project with
\* exactly its first space replaced by a hyphen: a name without a space is
\* unchanged, later spaces are kept.
C7_FirstSpaceOnly ==
  \A i \in Imports : \A a \in Positions(i, "render") :
    LET task == Received(i)[log[i][a].k]
        lk == projects[CommandOf(i)]
    IN  task.project_id \in DOMAIN lk =>
          HasProjectTag(log[i][a].text, lk[task.project_id].name)

\* C7 witness: a task of a project whose name has two spaces was rendered,
\* and so was a task of a project whose name has none.
C7_Witness ==
  /\ \E a \in Positions(1, "render") :
       Contains(log[1][a].text, " #project-My-Home Lab ")
  /\ \E a \in Positions(1, "render") :
       Contains(log[1][a].text, " #project-Inbox ")

\* C8: whatever the order of the comments responses, the inserted text is
\* the blocks of the tasks of the tasks response, in the order of the
\* response, each rendered with the comments answered to the request of
\* that task, joined by the separator.
C8_OrderKept ==
  \A i \in Imports :
    pc[i] = "done" =>
      \E now \in NowSet :
        InsertedText(i) =
          JoinStr([k \in 1..Len(Received(i)) |->
                     transformToMarkdown(
                       withCommentsThen(Received(i)[k], net[i].comments[k][1]),
                       projects[CommandOf(i)], host[i][1], now)],
                  "\n---\n")

\* C8 witness: two different tasks whose comments responses differ and
\* arrived in the reverse order of the tasks.
C8_Witness ==
  /\ pc[1] = "done" /\ Len(tasks[1]) = 2
  /\ Arrivals(log[1]) = <<2, 1>>
  /\ tasks[1][1].id # tasks[1][2].id
  /\ tasks[1][1].comments # tasks[1][2].comments

\* C9: the lookup of an import changes only in the step that handles its
\* projects response; once the tasks request of the import is issued no
\* step of any import changes it.
C9_LookupFrozen ==
  [][\A i \in Imports :
       /\ Positions(i, "tasksReq") # {} =>
            projects'[CommandOf(i)] = projects[CommandOf(i)]
       /\ projects'[CommandOf(i)] # projects[CommandOf(i)] =>
            Count(i, "projectsRes") = 0 /\ Count(i, "projectsRes")' = 1]_vars

\* C9 witness: an import with a filled lookup has handled a comments
\* response and completed while a later import has started.
C9_Witness ==
  /\ pc[1] = "done" /\ DOMAIN projects[CommandOf(1)] # {}
  /\ Count(1, "commentsRes") >= 1
  /\ pc[2] # "idle"

\* The imports between their start and their insertion or failure.
InFlight == {i \in Imports : pc[i] \in {"projects", "tasks", "comments"}}

\* C10 (as claimed): at no time are two imports in flight together.
C10_OneAtATime == Cardinality(InFlight) <= 1

\* The state that belongs to import i alone.
Private(i) == <<pc[i], projects[CommandOf(i)], tasks[i], requests[i], net[i], log[i]>>

\* C10 (amended): imports are not serialised, an invocation during an
\* earlier import starts a second import at once; every import has its own
\* command, lookup, tasks and requests, and no step changes the state of
\* two imports.
C10_Isolated ==
  [][\A i, j \in Imports :
       i # j => Private(i)' = Private(i) \/ Private(j)' = Private(j)]_vars

\* C10 witness: two imports are in flight together, each with its own
\* filled lookup.
C10_Witness ==
  /\ Cardinality(InFlight) >= 2
  /\ \E i, j \in InFlight :
       i # j /\ DOMAIN projects[CommandOf(i)] # {} /\ DOMAIN projects[CommandOf(j)] # {}

====
